---- MODULE Spec2Model ----
(***************************************************************************)
(* A model of lhotse/shar/readers/lazy.py: LazySharIterator, the lazy,     *)
(* shard-aware reader of the Lhotse Shar format.                           *)
(*                                                                         *)
(* The instance's attributes are variables; the constructor arguments      *)
(* (args), the contents of the shard locations (disk) and the ambient      *)
(* distributed context (env) are the inputs, drawn in Init.  The generator *)
(* made by __iter__ is a small program-counter machine (it_pc).            *)
(***************************************************************************)
EXTENDS Integers, Sequences, FiniteSets, TLC

\* ------------------------------------------------------------------ bounds
MaxShards == 2
MaxRecs == 2
MaxSeed == 2
MaxNodes == 2
MaxWorkers == 2
MaxPasses == 2

\* Length() calls on an instance.
MaxLenCalls == 2

\* ------------------------------------------------------------- basic values
\* Python's None, and an optional value x as <<x>>.
None == <<>>

Some(x) == <<x>>

\* The primary field and the non-primary fields, in the key order of the
\* caller's mapping (a dict keeps insertion order).
Primary == "cuts"

FieldOrder == <<"recording", "features">>

AllFields == {FieldOrder[i] : i \in 1..Len(FieldOrder)}

\* Recordings are stored as tar archives, the manifests and the other fields
\* as JSONL files (the layout SharWriter produces).
Ext(f) == IF f = "recording" THEN "tar" ELSE "jsonl"

\* The i-th location the caller lists for field f.
Loc(f, i) == <<f, i, Ext(f)>>

Locations == {Loc(f, i) : f \in {Primary} \cup AllFields, i \in 1..MaxShards}

\* The id of the k-th record of the manifest at the i-th primary location.
CutId(i, k) == <<i, k>>

\* A name stem that is the id of no record.
ForeignId == <<0, 0>>

\* The payload stored for field f at position k of its i-th location.
Payload(f, i, k) == <<f, i, k>>

Min(a, b) == IF a <= b THEN a ELSE b

SeqSum(s) ==
    LET Sum[n \in 0..Len(s)] == IF n = 0 THEN 0 ELSE Sum[n - 1] + s[n]
    IN Sum[Len(s)]

Range(s) == {s[i] : i \in 1..Len(s)}

IsPrefix(s, t) == Len(s) <= Len(t) /\ SubSeq(t, 1, Len(s)) = s

\* ------------------------------------------------------------------- state
VARIABLES
    args,                  \* the constructor's arguments
    disk,                  \* location -> the items its stream yields
    env,                   \* ambient (world_size, rank, num_workers, worker)
    global_rng,            \* state of the process-wide random generator
    status,                \* "new", "ready" (constructed) or "failed"
    split_for_dataloading, \* self.split_for_dataloading
    self_len,              \* self._len: None or <<n>>
    fields,                \* self.fields
    streams,               \* self.streams: field -> list of locations
    num_shards,            \* self.num_shards
    shards,                \* self.shards: list of shard descriptors
    cut_map_fns,           \* self.cut_map_fns
    twin_shards,           \* self.shards of a second instance: None or <<list>>
    it_pc,                 \* the generator: where it stands
    it_pairs,              \* zip(shards, self.cut_map_fns) of this pass
    it_idx,                \* index in it_pairs of the shard being traversed
    it_pos,                \* stream (field) -> items taken from it so far
    handles,               \* locations whose stream is open
    out,                   \* records yielded by this pass, in order
    passes,                \* number of Iterate() calls so far
    first_out,             \* None, or <<what the first pass yielded and how it ended>>
    len_calls,             \* number of Length() calls so far
    counted                \* number of times the lines of the manifests were counted

vars == <<args, disk, env, global_rng, status, split_for_dataloading, self_len,
          fields, streams, num_shards, shards, cut_map_fns, twin_shards,
          it_pc, it_pairs, it_idx, it_pos, handles, out, passes, first_out,
          len_calls, counted>>

calls == <<len_calls, counted>>

inst == <<split_for_dataloading, self_len, fields, streams, num_shards, shards,
          cut_map_fns>>

iter == <<it_pc, it_pairs, it_idx, it_pos, handles, out, passes, first_out>>

inputs == <<args, disk, env>>

\* ------------------------------------------------------------- the inputs
\* What a stream item at position k holds: a payload under the record's id
\* ("ok"), a placeholder ("none"), a payload under a foreign name ("bad"),
\* or a placeholder under a foreign name ("nonebad").
Kinds == {"ok", "none", "bad", "nonebad"}

HasValue(kind) == kind \in {"ok", "bad"}

StemOf(i, k, kind) == IF kind \in {"ok", "none"} THEN CutId(i, k) ELSE ForeignId

\* An item of a tar archive as TarIterator yields it: (manifest or None, path).
TarItem(f, i, k, kind) ==
    [val |-> IF HasValue(kind) THEN Payload(f, i, k) ELSE None,
     stem |-> StemOf(i, k, kind)]

\* A line of a JSONL field file: a dict with "cut_id" and, unless it is a
\* placeholder, the field's value under the field's name.
JsonlLine(f, i, k, kind) ==
    IF HasValue(kind)
    THEN (f :> Payload(f, i, k)) @@ ("cut_id" :> StemOf(i, k, kind))
    ELSE ("cut_id" :> StemOf(i, k, kind))

\* shape[i] describes shard i: n records in the manifest, and per field the
\* kinds of its items.
DiskOf(shape) ==
    [l \in Locations |->
        LET f == l[1]
            i == l[2]
        IN  IF i \notin DOMAIN shape THEN <<>>
            ELSE IF f = Primary THEN [k \in 1..shape[i].n |-> CutId(i, k)]
            ELSE [k \in 1..Len(shape[i].kinds[f]) |->
                    IF l[3] = "tar" THEN TarItem(f, i, k, shape[i].kinds[f][k])
                    ELSE JsonlLine(f, i, k, shape[i].kinds[f][k])]]

\* A well-formed shard with n records: every field has n matching items.
Regular(n) == [n |-> n, kinds |-> [f \in AllFields |-> [k \in 1..n |-> "ok"]]]

RegularLen(i) == ((i - 1) % MaxRecs) + 1

KindSeqs == UNION {[1..m -> Kinds] : m \in 0..MaxRecs}

\* A shard whose field g has arbitrary items, the other fields being regular.
Irregular(n, g, ks) ==
    [n |-> n, kinds |-> [f \in AllFields |-> IF f = g THEN ks ELSE [k \in 1..n |-> "ok"]]]

LocList(f, n) == [i \in 1..n |-> Loc(f, i)]

Mapping(fs, n) == [f \in fs |-> LocList(f, n)]

\* The transform lists a caller may pass: transform k is <<k>>.
FnList(n) == [i \in 1..n |-> Some(i)]

NoContext == [world_size |-> 1, rank |-> 0, num_workers |-> 1, worker |-> 0]

Contexts ==
    {[world_size |-> w, rank |-> r, num_workers |-> nw, worker |-> wk] :
        w \in 1..MaxNodes, r \in 0..(MaxNodes - 1),
        nw \in 1..MaxWorkers, wk \in 0..(MaxWorkers - 1)}

ValidContexts == {c \in Contexts : c.rank < c.world_size /\ c.worker < c.num_workers}

\* The constructor's arguments when a mapping is passed as fields; in_dir is
\* None, or <<the directory>>, and fields_is_none tells fields=None from an
\* empty mapping.
Args(m, split, shuffle, seed, fns) ==
    [fields |-> m, fields_is_none |-> FALSE, in_dir |-> None,
     split_for_dataloading |-> split, shuffle_shards |-> shuffle,
     seed |-> seed, cut_map_fns |-> fns]

\* The constructor's arguments with fields (or None) and in_dir (or None).
SourceArgs(m, none, dir) ==
    [fields |-> m, fields_is_none |-> none, in_dir |-> dir,
     split_for_dataloading |-> FALSE, shuffle_shards |-> FALSE,
     seed |-> 1, cut_map_fns |-> None]

\* A directory is the set of its entries; the entry lead.stamp.ext is
\* <<lead, stamp, ext>>, the stamp a string of digits.
DirStamps == {<<d>> : d \in 0..(MaxShards - 1)} \cup {<<1, 0>>}

DirEntries ==
    {<<Primary, st, x>> : st \in DirStamps, x \in {"jsonl", "tar"}}
        \cup {<<"recording", st, "tar">> : st \in DirStamps}

\* Every way of naming the source of the shards: no source, a mapping, a
\* directory, or both.
SourceInputs ==
    /\ disk = DiskOf(<<>>)
    /\ env = NoContext
    /\ \E none \in BOOLEAN, fs \in SUBSET ({Primary} \cup AllFields) :
          \E lens \in [fs -> 0..MaxShards] :
              \E dir \in {None} \cup
                          {Some(d) : d \in {{}, {<<Primary, <<0>>, "jsonl">>},
                                            {<<"recording", <<0>>, "tar">>}}} :
                  args = SourceArgs(IF none THEN <<>> ELSE [f \in fs |-> LocList(f, lens[f])],
                                    none, dir)

\* Every directory read on its own.
DirInputs ==
    /\ disk = DiskOf(<<>>)
    /\ env = NoContext
    /\ \E d \in SUBSET DirEntries : args = SourceArgs(<<>>, TRUE, Some(d))

\* Well-formed shards under every configuration of the reader; the ambient
\* context is read only by a reader that splits.
LayoutInputs(split) ==
    \E n \in 0..MaxShards, fs \in {{}, AllFields} :
        \E sh \in {<<FALSE, 1>>} \cup {<<TRUE, s>> : s \in 1..MaxSeed} :
            \E fns \in {None} \cup {Some(FnList(l)) : l \in 0..(MaxShards + 1)} :
                \E c \in IF split THEN ValidContexts ELSE {NoContext} :
                    /\ args = Args(Mapping({Primary} \cup fs, n), split, sh[1], sh[2], fns)
                    /\ disk = DiskOf([i \in 1..n |-> Regular(RegularLen(i))])
                    /\ env = c

\* Well-formed shards read by a splitting reader, under every context.
SplitInputs ==
    \E n \in 1..MaxShards, c \in ValidContexts :
        \E fns \in {None, Some(FnList(n))} :
            /\ args = Args(Mapping({Primary}, n), TRUE, FALSE, 1, fns)
            /\ disk = DiskOf([i \in 1..n |-> Regular(RegularLen(i))])
            /\ env = c

\* One shard (the b-th of n) of arbitrary content among well-formed ones,
\* read unsplit and unshuffled, each shard with its own transform.
ContentInputs ==
    \E n \in 1..MaxShards :
        \E b \in 1..n, m \in 0..MaxRecs, g \in AllFields, ks \in KindSeqs :
            /\ args = Args(Mapping({Primary} \cup AllFields, n), FALSE, FALSE, 1,
                           Some(FnList(n)))
            /\ disk = DiskOf([i \in 1..n |-> IF i = b THEN Irregular(m, g, ks) ELSE Regular(1)])
            /\ env = NoContext

\* Mappings whose fields list different numbers of locations, or lack the
\* primary field.
MappingInputs ==
    \E fs \in SUBSET ({Primary} \cup AllFields) :
        \E lens \in [fs -> 0..MaxShards] :
            /\ args = Args([f \in fs |-> LocList(f, lens[f])], FALSE, FALSE, 1, None)
            /\ disk = DiskOf([i \in 1..MaxShards |-> Regular(1)])
            /\ env = NoContext

\* --------------------------------------------------------- the constructor
\* random.Random(seed): a generator of its own, seeded with seed; one step of
\* it; and Random.shuffle, which walks i from the last index down to the
\* second and swaps x[i] with x[j], j drawn below i + 1.
RngSeed(seed) == seed % 16

RngNext(s) == (5 * s + 3) % 16

RECURSIVE ShuffleFrom(_, _, _)
ShuffleFrom(x, i, s) ==
    IF i < 2 THEN x
    ELSE LET s1 == RngNext(s)
             j == (s1 % i) + 1
         IN  ShuffleFrom([x EXCEPT ![i] = x[j], ![j] = x[i]], i - 1, s1)

\* Bug variant: the primary field's locations are shuffled on their own and
\* the other fields' stay in place.
ShufflePrimaryOnly(seed, g, x) ==
    LET p == ShuffleFrom(x, Len(x), RngSeed(seed))
    IN  [i \in 1..Len(x) |-> [f \in DOMAIN x[i] |-> IF f = Primary THEN p[i][f] ELSE x[i][f]]]

\* Bug variant: random.shuffle(self.shards), drawing from the process-wide
\* generator.
ShuffleSharedRng(seed, g, x) == ShuffleFrom(x, Len(x), g)

\* random.Random(seed).shuffle(self.shards); g is the process-wide generator.
ShuffleShards(seed, g, x) == ShuffleFrom(x, Len(x), RngSeed(seed))

\* The shard descriptors: the per-field location lists zipped positionally.
ZipLocations(st, n) == [i \in 1..n |-> [f \in DOMAIN st |-> st[f][i]]]

\* ifnone(cut_map_fns, [None] * num_shards)
IfNoneFns(fns, n) == IF fns = None THEN [i \in 1..n |-> None] ELSE fns[1]

\* Bug variant: a field may list more locations than the primary field.
CountsAtLeast(st, fs, n) == \A f \in fs : Len(st[f]) >= n

\* Every field lists exactly num_shards locations.
CountsAgree(st, fs, n) == \A f \in fs : Len(st[f]) = n

\* exactly_one_not_null(fields, in_dir)
exactly_one_not_null(a) == (~a.fields_is_none) # (a.in_dir # None)

\* Bug variant: a source is asked for, not exactly one.
SourceGivenAny(a) == (~a.fields_is_none) \/ (a.in_dir # None)

\* The first assertion of __init__.
SourceGiven(a) == exactly_one_not_null(a)

\* _init_from_inputs: the primary key must be there; the other keys are the
\* fields and the mapping is the streams.
InitFromInputs(m) ==
    [ok |-> Primary \in DOMAIN m, fields |-> DOMAIN m \ {Primary}, streams |-> m]

\* p.name.split(".")[0] (and p.stem.split(".")[0], which is the same
\* component).
Lead(p) == p[1]

\* extension_contains(".jsonl", p)
IsJsonl(p) == p[3] = "jsonl"

\* Strings of digits in lexicographic order (a proper prefix comes first, as
\* the "." that follows it sorts before every digit).
LexLess(a, b) ==
    \E i \in 1..(Min(Len(a), Len(b)) + 1) :
        /\ \A j \in 1..(i - 1) : a[j] = b[j]
        /\ \/ i > Len(a) /\ i <= Len(b)
           \/ i <= Len(a) /\ i <= Len(b) /\ a[i] < b[i]

\* The order of two entries of one group: by stamp, then by extension
\* ("jsonl" before "tar").
PathLess(p, q) ==
    \/ LexLess(p[2], q[2])
    \/ p[2] = q[2] /\ p[3] = "jsonl" /\ q[3] = "tar"

\* sorted(entries)
RECURSIVE Sorted(_)
Sorted(S) ==
    IF S = {} THEN <<>>
    ELSE LET first == CHOOSE p \in S : \A q \in S \ {p} : PathLess(p, q)
         IN  <<first>> \o Sorted(S \ {first})

\* Bug variant: every entry of the primary group is taken for a manifest.
PrimaryEntriesAll(dir) == {p \in dir : Lead(p) = Primary}

\* The entries _init_from_dir takes for the primary field.
PrimaryEntries(dir) == {p \in dir : Lead(p) = Primary /\ IsJsonl(p)}

\* _init_from_dir: the groups of the directory's entries; the primary group
\* must be there.
InitFromDir(dir) ==
    LET groups == {Lead(p) : p \in dir}
    IN  [ok |-> Primary \in groups,
         fields |-> groups \ {Primary},
         streams |-> [f \in groups |->
                         IF f = Primary THEN Sorted(PrimaryEntries(dir))
                         ELSE Sorted({p \in dir : Lead(p) = f})]]

\* What __init__ resolves its source to: from the directory if in_dir is
\* given, else from the mapping.
Resolved(a) == IF a.in_dir # None THEN InitFromDir(a.in_dir[1]) ELSE InitFromInputs(a.fields)

\* self.shards as __init__ leaves it, for arguments a.
BuiltShards(a, g) ==
    LET st == Resolved(a).streams
        n == Len(st[Primary])
        zipped == ZipLocations(st, n)
    IN  IF a.shuffle_shards THEN ShuffleShards(a.seed, g, zipped) ELSE zipped

\* __init__ (with _init_from_inputs and _init_from_dir): a failed assertion
\* leaves no instance.
Construct ==
    /\ status = "new"
    /\ IF ~SourceGiven(args)
       THEN /\ status' = "failed"
            /\ UNCHANGED inst
       ELSE /\ split_for_dataloading' = args.split_for_dataloading
            /\ self_len' = None
            /\ LET src == Resolved(args)
               IN  IF ~src.ok
                   THEN /\ status' = "failed"
                        /\ UNCHANGED <<fields, streams, num_shards, shards, cut_map_fns>>
                   ELSE /\ fields' = src.fields
                        /\ streams' = src.streams
                        /\ num_shards' = Some(Len(src.streams[Primary]))
                        /\ IF ~CountsAgree(src.streams, src.fields, Len(src.streams[Primary]))
                           THEN /\ status' = "failed"
                                /\ UNCHANGED <<shards, cut_map_fns>>
                           ELSE /\ status' = "ready"
                                /\ shards' = BuiltShards(args, global_rng)
                                /\ cut_map_fns' =
                                       IfNoneFns(args.cut_map_fns, Len(src.streams[Primary]))
    /\ UNCHANGED <<inputs, calls, global_rng, twin_shards, iter>>

\* A second instance constructed over the same arguments.
ConstructTwin ==
    /\ twin_shards = None
    /\ Primary \in DOMAIN args.fields
    /\ CountsAgree(args.fields, DOMAIN args.fields \ {Primary}, Len(args.fields[Primary]))
    /\ twin_shards' = Some(BuiltShards(args, global_rng))
    /\ UNCHANGED <<inputs, calls, global_rng, status, inst, iter>>

\* Any other use of the process-wide random generator.
OtherRandom ==
    /\ global_rng' = RngNext(global_rng)
    /\ UNCHANGED <<inputs, calls, status, inst, twin_shards, iter>>

\* ---------------------------------------------------------------- splitting
\* src[start::step]
Stride(src, start, step) ==
    LET n == IF Len(src) > start THEN (Len(src) - start + step - 1) \div step ELSE 0
    IN  [k \in 1..n |-> src[start + (k - 1) * step + 1]]

split_by_node(src, e) ==
    IF e.world_size > 1 THEN Stride(src, e.rank, e.world_size) ELSE src

split_by_worker(src, e) ==
    IF e.num_workers > 1 THEN Stride(src, e.worker, e.num_workers) ELSE src

\* Bug variant: the sub-list is computed on first use and kept.
shards_for_dataloading_cached(sh, e) ==
    IF passes >= 1 THEN [i \in 1..Len(it_pairs) |-> it_pairs[i][1]]
    ELSE split_by_worker(split_by_node(sh, e), e)

\* The property shards_for_dataloading, of the shard list sh under context e.
shards_for_dataloading(sh, e) == split_by_worker(split_by_node(sh, e), e)

\* The shard list __iter__ walks.
SelectShards(split, sh, e) == IF split THEN shards_for_dataloading(sh, e) ELSE sh

\* zip(a, b): as long as the shorter of the two.
Zip(a, b) == [i \in 1..Min(Len(a), Len(b)) |-> <<a[i], b[i]>>]

\* Bug variant: the zip is built once and kept, so a first pass uses it up.
IterPairsConsumed(split, sh, fns, e) ==
    IF passes >= 1 THEN <<>> ELSE Zip(SelectShards(split, sh, e), fns)

\* Bug variant: the selected list is walked from its end.
IterPairsBackwards(split, sh, fns, e) ==
    LET z == Zip(SelectShards(split, sh, e), fns)
    IN  [i \in 1..Len(z) |-> z[Len(z) + 1 - i]]

\* The (shard, cut_map_fn) pairs one pass walks under context e.
IterPairs(split, sh, fns, e) == Zip(SelectShards(split, sh, e), fns)

\* ------------------------------------------------------------------ streams
\* A record as LazyManifestIterator deserializes it.
NewCut(id) == [id |-> id, attrs |-> <<>>, shard_origin |-> None, marks |-> <<>>]

\* Bug variant: a line without a value for the field is passed over.
jsonl_tar_adaptor_skipping(lines, f) ==
    LET kept == SelectSeq(lines, LAMBDA l : f \in DOMAIN l)
    IN  [k \in 1..Len(kept) |-> [val |-> kept[k][f], stem |-> kept[k]["cut_id"]]]

\* _jsonl_tar_adaptor: each line becomes (value or None, pseudo path).
jsonl_tar_adaptor(lines, f) ==
    [k \in 1..Len(lines) |->
        [val |-> IF f \in DOMAIN lines[k] THEN lines[k][f] ELSE None,
         stem |-> lines[k]["cut_id"]]]

\* The stream __iter__ opens for field f of a shard descriptor.
StreamOf(shard, f) ==
    IF f = Primary THEN [k \in 1..Len(disk[shard[f]]) |-> NewCut(disk[shard[f]][k])]
    ELSE IF shard[f][3] = "tar" THEN disk[shard[f]]
    ELSE jsonl_tar_adaptor(disk[shard[f]], f)

\* The non-primary fields of a shard descriptor, in the mapping's key order.
FieldsOf(shard) == SelectSeq(FieldOrder, LAMBDA f : f \in DOMAIN shard)

\* The streams zip() advances, in its order.
ZipOrder(shard) == <<Primary>> \o FieldsOf(shard)

\* Bug variant: a stream standing at its last item counts as exhausted.
FirstExhaustedEarly(shard, pos) ==
    LET order == ZipOrder(shard)
        short == {j \in 1..Len(order) : pos[order[j]] + 1 >= Len(StreamOf(shard, order[j]))}
    IN  IF short = {} THEN 0 ELSE CHOOSE j \in short : \A h \in short : j <= h

\* The first stream, in zip's order, that has no item left (0: none).
FirstExhausted(shard, pos) ==
    LET order == ZipOrder(shard)
        short == {j \in 1..Len(order) : pos[order[j]] >= Len(StreamOf(shard, order[j]))}
    IN  IF short = {} THEN 0 ELSE CHOOSE j \in short : \A h \in short : j <= h

\* Bug variant: only the primary stream moves on; the fields' streams are
\* read again from where they stand.
AdvancePrimaryOnly(pos) == [f \in DOMAIN pos |-> IF f = Primary THEN pos[f] + 1 ELSE pos[f]]

\* One round of zip(): every stream has given its next item.
Advance(pos) == [f \in DOMAIN pos |-> pos[f] + 1]

\* setattr(cut, field, maybe_manifest)
SetAttr(cut, f, v) == [cut EXCEPT !.attrs = (f :> v) @@ cut.attrs]

\* Bug variant: the name is not compared with the cut's id.
RECURSIVE AttachFieldsUnchecked(_, _, _)
AttachFieldsUnchecked(cut, fs, item) ==
    IF fs = <<>> THEN [ok |-> TRUE, cut |-> cut]
    ELSE LET f == Head(fs)
         IN  IF item[f].val = None THEN AttachFieldsUnchecked(cut, Tail(fs), item)
             ELSE AttachFieldsUnchecked(SetAttr(cut, f, item[f].val), Tail(fs), item)

\* Bug variant: a placeholder is not skipped.
RECURSIVE AttachFieldsNoSkip(_, _, _)
AttachFieldsNoSkip(cut, fs, item) ==
    IF fs = <<>> THEN [ok |-> TRUE, cut |-> cut]
    ELSE LET f == Head(fs)
         IN  IF item[f].stem # cut.id THEN [ok |-> FALSE, cut |-> cut]
             ELSE AttachFieldsNoSkip(SetAttr(cut, f, item[f].val), Tail(fs), item)

\* The loop over the fields' current items: a placeholder is skipped, a name
\* that is not the cut's id fails the assertion, a value is attached.
RECURSIVE AttachFields(_, _, _)
AttachFields(cut, fs, item) ==
    IF fs = <<>> THEN [ok |-> TRUE, cut |-> cut]
    ELSE LET f == Head(fs)
         IN  IF item[f].val = None THEN AttachFields(cut, Tail(fs), item)
             ELSE IF item[f].stem # cut.id THEN [ok |-> FALSE, cut |-> cut]
             ELSE AttachFields(SetAttr(cut, f, item[f].val), Tail(fs), item)

\* cut_map_fn(cut): transform <<k>> tags the record with k.
ApplyFn(fn, cut) == [cut EXCEPT !.marks = Append(cut.marks, fn[1])]

\* Bug variant: the transform's result is thrown away.
MapCutDiscarded(fn, cut) == cut

\* if cut_map_fn is not None: cut = cut_map_fn(cut)
MapCut(fn, cut) == IF fn # None THEN ApplyFn(fn, cut) ELSE cut

\* --------------------------------------------------------------- iteration
\* Bug variant: the iterators of every shard of the pass are built and opened
\* together.
OpenHandlesOfAll(shard) ==
    UNION {{it_pairs[j][1][f] : f \in DOMAIN it_pairs[j][1]} : j \in 1..Len(it_pairs)}

\* The streams a shard's traversal holds open: those of the iterators built
\* for this shard, and no others.
OpenHandles(shard) == {shard[f] : f \in DOMAIN shard}

\* What stays open once the zip loop of a shard is left (its end, a fault,
\* the generator being dropped): every stream is released.
HandlesAfterExit == {}

Running == it_pc \in {"shards", "zip"}

\* __iter__ is called and the generator started: the shard list is selected
\* under the ambient context and zipped with the transforms.
Iterate ==
    /\ status = "ready"
    /\ it_pc \in {"idle", "done", "fault", "closed"}
    /\ passes < MaxPasses
    /\ it_pairs' = IterPairs(split_for_dataloading, shards, cut_map_fns, env)
    /\ it_idx' = 0
    /\ it_pos' = <<>>
    /\ it_pc' = "shards"
    /\ out' = <<>>
    /\ passes' = passes + 1
    /\ first_out' = IF passes = 1 THEN Some([out |-> out, end |-> it_pc]) ELSE first_out
    /\ UNCHANGED <<inputs, calls, global_rng, status, inst, twin_shards, handles>>

\* The shard loop takes the next pair and builds the shard's iterators.
BeginShard ==
    /\ it_pc = "shards"
    /\ it_idx < Len(it_pairs)
    /\ it_idx' = it_idx + 1
    /\ it_pos' = [f \in DOMAIN it_pairs[it_idx + 1][1] |-> 0]
    /\ it_pc' = "zip"
    /\ UNCHANGED <<inputs, calls, global_rng, status, inst, twin_shards, it_pairs, handles,
                   out, passes, first_out>>

\* The shard loop has no pair left: the generator returns.
EndIteration ==
    /\ it_pc = "shards"
    /\ it_idx = Len(it_pairs)
    /\ it_pc' = "done"
    /\ UNCHANGED <<inputs, calls, global_rng, status, inst, twin_shards, it_pairs, it_idx,
                   it_pos, handles, out, passes, first_out>>

\* One round of the zip loop: every stream is advanced in zip's order; the
\* first exhausted one ends the shard, otherwise the fields' items are
\* attached, the transform applied and the cut yielded.
ZipStep ==
    /\ it_pc \in {"zip", "yielded"}
    /\ LET shard == it_pairs[it_idx][1]
           fn == it_pairs[it_idx][2]
           order == ZipOrder(shard)
           stop == FirstExhausted(shard, it_pos)
       IN  IF stop # 0
           THEN /\ it_pos' = [f \in DOMAIN it_pos |->
                                IF \E j \in 1..(stop - 1) : order[j] = f
                                THEN it_pos[f] + 1 ELSE it_pos[f]]
                /\ handles' = HandlesAfterExit
                /\ it_pc' = "shards"
                /\ out' = out
           ELSE LET item == [f \in DOMAIN shard |-> StreamOf(shard, f)[it_pos[f] + 1]]
                    got == AttachFields(item[Primary], FieldsOf(shard), item)
                    cut == [got.cut EXCEPT !.shard_origin = Some(shard[Primary])]
                IN  /\ it_pos' = Advance(it_pos)
                    /\ IF got.ok
                       THEN /\ out' = Append(out, MapCut(fn, cut))
                            /\ handles' = OpenHandles(shard)
                            /\ it_pc' = "yielded"
                       ELSE /\ out' = out
                            /\ handles' = HandlesAfterExit
                            /\ it_pc' = "fault"
    /\ UNCHANGED <<inputs, calls, global_rng, status, inst, twin_shards, it_pairs, it_idx,
                   passes, first_out>>

\* The caller drops the generator while it is suspended at the yield.
Abandon ==
    /\ it_pc = "yielded"
    /\ it_pc' = "closed"
    /\ handles' = HandlesAfterExit
    /\ UNCHANGED <<inputs, calls, global_rng, status, inst, twin_shards, it_pairs, it_idx,
                   it_pos, out, passes, first_out>>

\* count_newlines_fast(p): the number of lines, one per record.
count_newlines_fast(p) == Len(disk[p])

\* Bug variant: only the shards of this consumer's partition are counted.
LenLocationsSplit(st, sh, e) ==
    LET mine == shards_for_dataloading(sh, e)
    IN  [i \in 1..Len(mine) |-> mine[i][Primary]]

\* The locations __len__ counts the lines of.
LenLocations(st, sh, e) == st[Primary]

\* Bug variant: the stored total is not consulted.
NeedsCountAlways(l) == TRUE

\* if self._len is None
NeedsCount(l) == l = None

\* __len__: counts once, then returns the stored total.
Length ==
    /\ status = "ready"
    /\ ~Running
    /\ len_calls < MaxLenCalls
    /\ len_calls' = len_calls + 1
    /\ IF NeedsCount(self_len)
       THEN /\ self_len' =
                  LET ps == LenLocations(streams, shards, env)
                  IN  Some(SeqSum([i \in 1..Len(ps) |-> count_newlines_fast(ps[i])]))
            /\ counted' = counted + 1
       ELSE UNCHANGED <<self_len, counted>>
    /\ UNCHANGED <<inputs, global_rng, status, split_for_dataloading, fields, streams,
                   num_shards, shards, cut_map_fns, twin_shards, iter>>

\* Between two passes the instance comes to run under another ambient
\* context (another data-loading worker, another process group).
ChangeContext ==
    /\ status = "ready"
    /\ it_pc \in {"idle", "done"}
    /\ \E e \in ValidContexts : e # env /\ env' = e
    /\ UNCHANGED <<args, disk, calls, global_rng, status, inst, twin_shards, iter>>

\* ------------------------------------------------------------ specifications
InitInstance ==
    /\ global_rng = 0
    /\ status = "new"
    /\ split_for_dataloading = FALSE
    /\ self_len = None
    /\ fields = {}
    /\ streams = <<>>
    /\ num_shards = None
    /\ shards = <<>>
    /\ cut_map_fns = <<>>
    /\ twin_shards = None
    /\ it_pc = "idle"
    /\ it_pairs = <<>>
    /\ it_idx = 0
    /\ it_pos = <<>>
    /\ handles = {}
    /\ out = <<>>
    /\ passes = 0
    /\ first_out = None
    /\ len_calls = 0
    /\ counted = 0

\* The reader over well-formed shards, under every configuration, and the
\* constructor over every mapping.
Init ==
    /\ LayoutInputs(TRUE) \/ LayoutInputs(FALSE) \/ MappingInputs
    /\ InitInstance

Next ==
    \/ Construct
    \/ Iterate
    \/ BeginShard
    \/ ZipStep
    \/ EndIteration
    \/ Abandon
    \/ Length

Spec == Init /\ [][Next]_vars

\* The reader over shards of arbitrary content.
InitContent == ContentInputs /\ InitInstance

NextContent ==
    \/ Construct
    \/ Iterate
    \/ BeginShard
    \/ ZipStep
    \/ EndIteration
    \/ Abandon

SpecContent == InitContent /\ [][NextContent]_vars

\* Two instances constructed over the same arguments in a process whose
\* random generator is used in between.
InitTwin == LayoutInputs(FALSE) /\ InitInstance

NextTwin ==
    \/ Construct
    \/ ConstructTwin
    \/ OtherRandom

SpecTwin == InitTwin /\ [][NextTwin]_vars

\* The constructor over every way of naming the source of the shards.
InitSource == (SourceInputs \/ DirInputs) /\ InitInstance

NextSource == Construct

SpecSource == InitSource /\ [][NextSource]_vars

\* A splitting reader whose ambient context changes between passes.
InitSplit == SplitInputs /\ InitInstance

NextSplit ==
    \/ Construct
    \/ Iterate
    \/ BeginShard
    \/ ZipStep
    \/ EndIteration
    \/ Length
    \/ ChangeContext

SpecSplit == InitSplit /\ [][NextSplit]_vars

\* -------------------------------------------------------------- properties
\* The position, in the caller's list, of a primary location.
OrigIndex(loc) == loc[2]

\* Whether the caller passed a transform list with one entry per shard.
FnsPerShard ==
    /\ args.cut_map_fns # None
    /\ Len(args.cut_map_fns[1]) = Len(args.fields[Primary])

\* The descriptor of the shard a yielded record was read from.
ShardOfRecord(r) == [f \in DOMAIN streams |-> streams[f][r.id[1]]]

\* The number of tuples zip() makes of a shard's streams.
MinLen(shard) ==
    CHOOSE m \in 0..(MaxRecs + 1) :
        /\ \A f \in DOMAIN shard : m <= Len(StreamOf(shard, f))
        /\ \E f \in DOMAIN shard : m = Len(StreamOf(shard, f))

\* At position k of the shard, some field's item has a value and a name
\* whose stem is not the id of the primary record.
Mismatch(shard, k) ==
    \E f \in DOMAIN shard \ {Primary} :
        /\ StreamOf(shard, f)[k].val # None
        /\ StreamOf(shard, f)[k].stem # StreamOf(shard, Primary)[k].id

\* The pass has taken the k-th tuple of its i-th shard.
Reached(i, k) ==
    /\ \/ it_idx > i
       \/ it_idx = i /\ it_pos[Primary] >= k
    /\ k <= MinLen(it_pairs[i][1])

ShardIds(shard, k) == [j \in 1..k |-> StreamOf(shard, Primary)[j].id]

RECURSIVE IdsOfShards(_, _)
IdsOfShards(pairs, n) ==
    IF n = 0 THEN <<>>
    ELSE IdsOfShards(pairs, n - 1) \o ShardIds(pairs[n][1], MinLen(pairs[n][1]))

\* The ids of the records that precede record k of shard i in the pass.
IdsBefore(i, k) == IdsOfShards(it_pairs, i - 1) \o ShardIds(it_pairs[i][1], k - 1)

OutIds == [j \in 1..Len(out) |-> out[j].id]

\* C1: with shuffling enabled, every yielded record has passed through the
\* transform whose index in the caller's list is the original (pre-shuffle)
\* index of the shard the record was read from.
C1_TransformFollowsShard ==
    (args.shuffle_shards /\ FnsPerShard) =>
        \A j \in 1..Len(out) : out[j].marks = <<OrigIndex(out[j].shard_origin[1])>>

\* C2: when the current primary record meets a field item with a value and a
\* foreign name, the pass faults at exactly that record: the record is not
\* yielded, nothing is yielded after it, and exactly the records before it
\* were yielded.
C2_FaultStopsPass ==
    \A i \in 1..Len(it_pairs) :
        \A k \in 1..MaxRecs :
            (Reached(i, k) /\ Mismatch(it_pairs[i][1], k)) =>
                /\ it_pc = "fault"
                /\ it_idx = i
                /\ it_pos[Primary] = k
                /\ OutIds = IdsBefore(i, k)

\* C2 happens: a fault at a record whose first field was in order, after at
\* least one yielded record and with a later shard still to come.
C2_Witness ==
    /\ it_pc = "fault"
    /\ Len(out) >= 1
    /\ it_idx < Len(it_pairs)
    /\ LET sh == it_pairs[it_idx][1]
           k == it_pos[Primary]
       IN  /\ StreamOf(sh, "recording")[k].val # None
           /\ StreamOf(sh, "recording")[k].stem = StreamOf(sh, Primary)[k].id
           /\ StreamOf(sh, "features")[k].val # None

\* The consumers of a topology of w nodes with nw workers each.
Consumers(w, nw) ==
    {[world_size |-> w, rank |-> r, num_workers |-> nw, worker |-> wk] :
        r \in 0..(w - 1), wk \in 0..(nw - 1)}

\* The shards a pass under context e traverses.
IteratedShards(e) ==
    {p[1] : p \in Range(IterPairs(split_for_dataloading, shards, cut_map_fns, e))}

\* C3: with the split flag set, under every topology each shard of the full
\* list is traversed by exactly one (node, worker) consumer.
C3_SplitCoversOnce ==
    (status = "ready" /\ split_for_dataloading) =>
        \A w \in 1..MaxNodes, nw \in 1..MaxWorkers :
            \A j \in 1..Len(shards) :
                Cardinality({e \in Consumers(w, nw) : shards[j] \in IteratedShards(e)}) = 1

\* The number of records in all the primary locations the caller listed.
TotalRecords ==
    SeqSum([i \in 1..Len(args.fields[Primary]) |-> Len(disk[args.fields[Primary][i]])])

\* C4: Length() is the sum of the record counts of all primary locations,
\* whatever the shuffle flag, the seed, the split flag and the context are.
C4_LengthIsTotal == self_len # None => self_len[1] = TotalRecords

\* C4 happens: the length of a shuffled, split reader of several shards, on
\* a consumer that holds only part of them.
C4_Witness ==
    /\ self_len # None
    /\ self_len[1] >= 2
    /\ split_for_dataloading
    /\ args.shuffle_shards
    /\ Len(shards) >= 2
    /\ env.world_size > 1

\* C5: without shuffling and splitting and with one transform per shard,
\* every record yielded from shard i carries the marker of transform i, once,
\* and no other marker.
C5_TransformPerShard ==
    (~args.shuffle_shards /\ ~args.split_for_dataloading /\ FnsPerShard) =>
        \A j \in 1..Len(out) : out[j].marks = <<out[j].id[1]>>

\* C5 happens: a completed pass over two shards, each with its transform.
C5_Witness ==
    /\ ~args.shuffle_shards
    /\ ~args.split_for_dataloading
    /\ FnsPerShard
    /\ it_pc = "done"
    /\ \E j \in 1..Len(out) : out[j].id[1] = 2
    /\ \E j \in 1..Len(out) : out[j].id[1] = 1

\* C6: a yielded record has field F attached exactly when F's item at the
\* record's position has a value, and then that value; a placeholder is no
\* fault: a pass faults only on an item that has a value.
C6_AttachedIffValue ==
    /\ \A j \in 1..Len(out) :
          \A f \in fields :
              LET item == StreamOf(ShardOfRecord(out[j]), f)[out[j].id[2]]
              IN  /\ f \in DOMAIN out[j].attrs <=> item.val # None
                  /\ f \in DOMAIN out[j].attrs => out[j].attrs[f] = item.val
    /\ it_pc = "fault" => Mismatch(it_pairs[it_idx][1], it_pos[Primary])

\* C6 happens: a record yielded with one field attached and the other a
\* placeholder, here one under a foreign name.
C6_Witness ==
    \E j \in 1..Len(out) :
        /\ "recording" \in DOMAIN out[j].attrs
        /\ "features" \notin DOMAIN out[j].attrs
        /\ StreamOf(ShardOfRecord(out[j]), "features")[out[j].id[2]].stem = ForeignId

C8_PassesAgree ==
    first_out # None =>
        LET first == first_out[1]
        IN  /\ IsPrefix(out, first.out) \/ IsPrefix(first.out, out)
            /\ it_pc \in {"done", "fault"} => IsPrefix(first.out, out)
            /\ first.end \in {"done", "fault"} => IsPrefix(out, first.out)
            /\ (it_pc \in {"done", "fault"} /\ first.end \in {"done", "fault"}) =>
                   it_pc = first.end

\* C8 happens: a first pass dropped midway, and a second pass that yielded
\* the same records again and went on to the end.
C8_Witness ==
    /\ first_out # None
    /\ first_out[1].end = "closed"
    /\ Len(first_out[1].out) >= 1
    /\ it_pc = "done"
    /\ Len(out) > Len(first_out[1].out)

\* C9: two instances constructed over the same input with shuffling and the
\* same seed hold the same shard ordering, whatever use was made of the
\* process-wide random generator before or between the two constructions.
C9_SameSeedSameOrder ==
    (status = "ready" /\ twin_shards # None /\ args.shuffle_shards) =>
        twin_shards[1] = shards

\* C9 happens: both instances hold a shuffled (permuted) list, and the
\* process-wide generator has been used.
C9_Witness ==
    /\ status = "ready"
    /\ twin_shards # None
    /\ args.shuffle_shards
    /\ global_rng # 0
    /\ shards # ZipLocations(args.fields, Len(args.fields[Primary]))

\* A field of the caller's mapping lists another number of locations than
\* the primary field.
CountsDiffer ==
    /\ Primary \in DOMAIN args.fields
    /\ \E f \in DOMAIN args.fields : Len(args.fields[f]) # Len(args.fields[Primary])

\* C10: construction fails whenever a field's location list differs in
\* length from the primary field's; in a constructed instance every field
\* has num_shards locations and every descriptor a location per field.
C10_CountsValidated ==
    /\ (status # "new" /\ CountsDiffer) => status = "failed"
    /\ status = "ready" =>
          /\ \A f \in fields : Len(streams[f]) = num_shards[1]
          /\ Len(shards) = num_shards[1]
          /\ \A j \in 1..Len(shards) : DOMAIN shards[j] = fields \cup {Primary}

\* C10 happens: a mapping with the primary field and a field of another
\* length was refused.
C10_Witness == status = "failed" /\ CountsDiffer

\* ------------------------------------------------------------ claims C11-C20
\* Exactly one of the two sources was passed.
ExactlyOneSource ==
    \/ args.fields_is_none /\ args.in_dir # None
    \/ ~args.fields_is_none /\ args.in_dir = None

\* The source that was passed holds the primary field: a key of the mapping,
\* or the leading component of an entry of the directory.
SourceHasPrimary ==
    IF args.in_dir # None
    THEN \E p \in args.in_dir[1] : p[1] = Primary
    ELSE Primary \in DOMAIN args.fields

\* C11: construction fails when neither or both of the mapping and the
\* directory are passed, and when the source passed lacks the primary field;
\* an instance exists only for exactly one source that holds the primary
\* field.
C11_SourceValidated ==
    status # "new" =>
        /\ (~ExactlyOneSource \/ ~SourceHasPrimary) => status = "failed"
        /\ status = "ready" => ExactlyOneSource /\ SourceHasPrimary

\* C11 happens: a mapping and a directory, each with the primary field, were
\* passed together and construction failed.
C11_Witness ==
    /\ status = "failed"
    /\ ~args.fields_is_none
    /\ args.in_dir # None
    /\ Primary \in DOMAIN args.fields
    /\ \E p \in args.in_dir[1] : p[1] = Primary

\* Whether seq lists the entries S, each once, in ascending order.
IsSortedListOf(seq, S) ==
    /\ Len(seq) = Cardinality(S)
    /\ Range(seq) = S
    /\ \A i, j \in 1..Len(seq) : i < j => PathLess(seq[i], seq[j])

\* The entries of a directory whose leading name component is f.
Group(dir, f) == {p \in dir : p[1] = f}

\* An instance was constructed from a directory.
BuiltFromDir == status = "ready" /\ args.in_dir # None

\* C14 as stated: in directory mode the fields are the leading components
\* but the primary one, every field's list, the primary field's too, is the
\* sorted list of its entries, and num_shards is the number of primary
\* entries.
C14_Original ==
    BuiltFromDir =>
        LET dir == args.in_dir[1]
        IN  /\ fields = {p[1] : p \in dir} \ {Primary}
            /\ \A f \in fields \cup {Primary} : IsSortedListOf(streams[f], Group(dir, f))
            /\ num_shards = Some(Cardinality(Group(dir, Primary)))

\* C14: in directory mode the fields are the leading components but the
\* primary one, every other field's list is the sorted list of its entries,
\* the primary field's list is the sorted list of its entries with a jsonl
\* extension, and num_shards is the number of those.
C14_DirGrouping ==
    BuiltFromDir =>
        LET dir == args.in_dir[1]
            manifests == {p \in Group(dir, Primary) : p[3] = "jsonl"}
        IN  /\ fields = {p[1] : p \in dir} \ {Primary}
            /\ \A f \in fields : IsSortedListOf(streams[f], Group(dir, f))
            /\ IsSortedListOf(streams[Primary], manifests)
            /\ num_shards = Some(Cardinality(manifests))

\* C14 happens: a directory with two manifests, a primary entry that is no
\* manifest and a second field was read, and the stamp 1 sorts before 10.
C14_Witness ==
    /\ BuiltFromDir
    /\ num_shards = Some(2)
    /\ "recording" \in fields
    /\ \E p \in args.in_dir[1] : p[1] = Primary /\ p[3] # "jsonl"
    /\ streams[Primary] = << <<Primary, <<1>>, "jsonl">>, <<Primary, <<1, 0>>, "jsonl">> >>

\* The walk of the i-th shard of the pass has come to its end.
ShardDone(i) ==
    \/ it_idx > i
    \/ it_idx = i /\ it_pc \in {"shards", "done"}

\* The positions in out of the records read from the i-th shard of the pass.
YieldedFrom(i) ==
    {j \in 1..Len(out) : out[j].shard_origin = Some(it_pairs[i][1][Primary])}

\* C12: a shard's walk ends when any of its streams is exhausted: the shard
\* yields as many records as its shortest stream has items, a fault is never
\* due to the streams' lengths, and the pass goes on to the next shard until
\* none is left.
C12_ShortestStreamEndsShard ==
    /\ \A i \in 1..Len(it_pairs) :
          ShardDone(i) => Cardinality(YieldedFrom(i)) = MinLen(it_pairs[i][1])
    /\ it_pc = "fault" => Mismatch(it_pairs[it_idx][1], it_pos[Primary])
    /\ it_pc = "done" => it_idx = Len(it_pairs)

\* C12 happens: the first shard's field stream was shorter than its
\* manifest, the shard yielded a record, and the pass went on to yield a
\* record of the second shard and ended.
C12_Witness ==
    /\ it_pc = "done"
    /\ Len(it_pairs) = 2
    /\ LET sh == it_pairs[1][1]
       IN  /\ MinLen(sh) = 1
           /\ Len(StreamOf(sh, Primary)) = 2
    /\ YieldedFrom(1) = {1}
    /\ YieldedFrom(2) = {2}

\* The shard list a pass is to walk: the instance's list, or with the split
\* flag its sub-list under the ambient context.
Selected ==
    IF split_for_dataloading THEN split_by_worker(split_by_node(shards, env), env) ELSE shards

\* The positions in the selected list of the shard a record was read from.
SelectedAt(r) == {i \in 1..Len(Selected) : Some(Selected[i][Primary]) = r.shard_origin}

\* C13: the records of a pass come shard by shard, in the order of the
\* selected shard list, and within a shard in the order of its manifest.
C13_ShardThenFileOrder ==
    \A j \in 1..Len(out) :
        /\ SelectedAt(out[j]) # {}
        /\ \A i \in SelectedAt(out[j]) :
              LET earlier == {h \in 1..(j - 1) : i \in SelectedAt(out[h])}
              IN  /\ out[j].id = disk[Selected[i][Primary]][Cardinality(earlier) + 1]
                  /\ \A h \in 1..(j - 1) : \E g \in SelectedAt(out[h]) : g <= i

\* C13 happens: a pass over two shuffled shards has yielded the three records
\* of both.
C13_Witness ==
    /\ it_pc = "done"
    /\ args.shuffle_shards
    /\ Len(shards) = 2
    /\ shards[1][Primary] = Loc(Primary, 2)
    /\ Len(out) = 3

\* C16: when the k-th record of a shard is yielded, the manifest and every
\* field stream of the shard have each given exactly k items, the record is
\* the manifest's k-th and what it carries for a field is the k-th item of
\* that field's stream.
C16_Lockstep ==
    it_pc = "yielded" =>
        LET shard == it_pairs[it_idx][1]
            k == Cardinality(YieldedFrom(it_idx))
            r == out[Len(out)]
        IN  /\ k >= 1
            /\ \A f \in DOMAIN shard : it_pos[f] = k
            /\ r.id = disk[shard[Primary]][k]
            /\ \A f \in DOMAIN shard \ {Primary} :
                  LET v == StreamOf(shard, f)[k].val
                  IN  IF v = None THEN f \notin DOMAIN r.attrs
                      ELSE f \in DOMAIN r.attrs /\ r.attrs[f] = v

\* C16 happens: the second record of a shard was yielded with a value from
\* each of the two field streams.
C16_Witness ==
    /\ it_pc = "yielded"
    /\ it_pos[Primary] = 2
    /\ DOMAIN out[Len(out)].attrs = AllFields

\* C17: the total is counted at most once per instance: it is absent until
\* the first Length(), which counts and stores it; later calls, and
\* Iterate() calls before, between and after them, neither count again nor
\* set or change what is stored.
C17_CountedOnce ==
    /\ counted <= 1
    /\ len_calls = 0 => counted = 0 /\ self_len = None
    /\ len_calls >= 1 => counted = 1 /\ self_len # None

\* C17 happens: Length() was called twice and Iterate() twice, with records
\* yielded, and the lines were counted once.
C17_Witness ==
    /\ len_calls = 2
    /\ counted = 1
    /\ passes = 2
    /\ Len(out) >= 1
    /\ first_out[1].out # <<>>

C15_SplitLeavesInstance ==
    status = "ready" =>
        /\ shards = BuiltShards(args, global_rng)
        /\ cut_map_fns = IfNoneFns(args.cut_map_fns, Len(args.fields[Primary]))
        /\ self_len \in {None, Some(TotalRecords)}
        /\ (split_for_dataloading /\ it_pc \in {"shards", "zip", "yielded"}) =>
              /\ Len(it_pairs) = Len(Selected)
              /\ \A i \in 1..Len(it_pairs) : it_pairs[i][1] = Selected[i]

\* C15 happens: Length() was called, and a second pass, under another
\* context than the first, yields the record of another shard.
C15_Witness ==
    /\ split_for_dataloading
    /\ passes = 2
    /\ it_pc = "yielded"
    /\ self_len # None
    /\ first_out[1].out # <<>>
    /\ first_out[1].out[1].shard_origin # out[1].shard_origin

\* The position of a shard in the instance's full (un-split) list.
FullIndex(loc) == CHOOSE i \in 1..Len(shards) : shards[i][Primary] = loc

\* C19: with the split flag and one transform per shard, each consumer
\* applies to the records of a shard the transform whose index is the
\* shard's index in the full shard list.
C19_SplitTransformByFullIndex ==
    (split_for_dataloading /\ FnsPerShard) =>
        \A j \in 1..Len(out) : out[j].marks = <<FullIndex(out[j].shard_origin[1])>>

\* C20: an un-split pass of an accepted instance that runs to completion has
\* traversed all num_shards shards, whatever the transform list's length.
C20_AllShardsTraversed ==
    (status = "ready" /\ ~split_for_dataloading /\ it_pc = "done") =>
        /\ it_idx = num_shards[1]
        /\ \A i \in 1..Len(shards) : \E j \in 1..Len(it_pairs) : it_pairs[j][1] = shards[i]

\* ----------------------------------------------------------------- claim C21
\* The descriptor of original shard index i: the i-th location of every
\* field's list.
Descriptor(i) == [f \in DOMAIN streams |-> streams[f][i]]

\* C21: after construction with any seed the shard list is a permutation of
\* the positional zip of the per-field location lists: every descriptor
\* holds the locations of one original shard index, every original index
\* has exactly one descriptor, and the per-field lists keep the order the
\* caller gave them.
C21_ShuffleKeepsDescriptors ==
    status = "ready" =>
        /\ Len(shards) = num_shards[1]
        /\ \A j \in 1..Len(shards) : \E i \in 1..num_shards[1] : shards[j] = Descriptor(i)
        /\ \A i \in 1..num_shards[1] :
              Cardinality({j \in 1..Len(shards) : shards[j] = Descriptor(i)}) = 1
        /\ streams = args.fields

\* C21 happens: a shuffle has swapped two shards of three fields each, and
\* Length() has counted over the per-field lists.
C21_Witness ==
    /\ status = "ready"
    /\ args.shuffle_shards
    /\ fields = AllFields
    /\ Len(shards) = 2
    /\ shards[1] = Descriptor(2)
    /\ shards[2] = Descriptor(1)
    /\ self_len # None

====
